---------------------------- MODULE Spec2Model ----------------------------
(***************************************************************************)
(* A model of src/app.py: the Flask application with signup / login /      *)
(* logout over a one-table user store, a cookie-backed session, and the    *)
(* /get chat endpoint (crisis filter, model call, reply extraction and     *)
(* formatting).                                                            *)
(*                                                                         *)
(* Text is modelled as a sequence of one-character strings, so that        *)
(* strip(), lower(), the substring test, split() and re.sub() are computed *)
(* character by character as Python computes them.                         *)
(***************************************************************************)
EXTENDS Integers, Sequences, FiniteSets, TLC

VARIABLES
    users,        \* the rows of table "user" in users.db, in insertion order
    cookie,       \* per client: the signed session cookie the client holds
    pending,      \* per client: a POST /signup between its lookup and its commit
    tokenizer,    \* module global `tokenizer`
    model,        \* module global `model`
    secret_key,   \* app.secret_key of the running process
    epoch,        \* number of process restarts so far
    req,          \* the request handled last
    resp,         \* the response to it
    generated,    \* whether handling it called model.generate
    loginEpoch,   \* history: per client, epoch of its last successful login
                  \* since its last logout (NoLogin when there is none)
    registered,   \* history: <<trimmed username, password, id>> of every
                  \* signup that succeeded
    loadFailed,   \* history: whether the model loading of the running
                  \* process failed
    fmtIn,        \* formatter harness: the reply text handed to the formatter
    fmtOut        \* formatter harness: what the formatter returned

webVars == <<users, cookie, pending, tokenizer, model, secret_key, epoch,
             req, resp, generated, loginEpoch, registered, loadFailed>>
fmtVars == <<fmtIn, fmtOut>>
vars == <<webVars, fmtVars>>

-----------------------------------------------------------------------------
(* Bounds of the model *)

\* how many times the server process is restarted
MaxRestarts == 1
\* the formatter harness feeds replies of 0 .. MaxWords words
MaxWords == 62

-----------------------------------------------------------------------------
(* Python string primitives *)

Whitespace == {" ", "\n", "\t"}

IsSpace(c) == c \in Whitespace

UpperChars ==
    <<"A", "B", "C", "D", "E", "F", "G", "H", "I", "J", "K", "L", "M",
      "N", "O", "P", "Q", "R", "S", "T", "U", "V", "W", "X", "Y", "Z">>
LowerChars ==
    <<"a", "b", "c", "d", "e", "f", "g", "h", "i", "j", "k", "l", "m",
      "n", "o", "p", "q", "r", "s", "t", "u", "v", "w", "x", "y", "z">>

LowerChar(c) ==
    IF \E i \in 1..Len(UpperChars) : UpperChars[i] = c
    THEN LowerChars[CHOOSE i \in 1..Len(UpperChars) : UpperChars[i] = c]
    ELSE c

\* str.lower()
lower(s) == [i \in 1..Len(s) |-> LowerChar(s[i])]

SetMin(S) == CHOOSE x \in S : \A y \in S : x <= y
SetMax(S) == CHOOSE x \in S : \A y \in S : x >= y

\* str.strip(): drop leading and trailing whitespace
strip(s) ==
    LET ink == {i \in 1..Len(s) : ~IsSpace(s[i])}
    IN  IF ink = {} THEN <<>> ELSE SubSeq(s, SetMin(ink), SetMax(ink))

\* the positions at which w occurs in s
Occurrences(w, s) ==
    {i \in 1..(Len(s) - Len(w) + 1) : SubSeq(s, i, i + Len(w) - 1) = w}

\* `w in s`
contains(w, s) == Occurrences(w, s) # {}

\* s.split(sep, 1)[1]: the text after the first occurrence of sep
after_first(sep, s) ==
    LET i == SetMin(Occurrences(sep, s))
    IN  SubSeq(s, i + Len(sep), Len(s))

\* re.sub(r"\s+", " ", s): every maximal whitespace run becomes one space.
\* What position i of s contributes to the result:
sub_ws_at(s, i) ==
    IF ~IsSpace(s[i]) THEN <<s[i]>>
    ELSE IF i > 1 /\ IsSpace(s[i - 1]) THEN <<>>
    ELSE <<" ">>

\* (the range lo..hi is halved so that the evaluation stays shallow)
RECURSIVE sub_ws_range(_, _, _)
sub_ws_range(s, lo, hi) ==
    IF lo > hi THEN <<>>
    ELSE IF lo = hi THEN sub_ws_at(s, lo)
    ELSE LET mid == (lo + hi) \div 2
         IN  sub_ws_range(s, lo, mid) \o sub_ws_range(s, mid + 1, hi)

sub_ws(s) == sub_ws_range(s, 1, Len(s))

\* str.split(): the maximal runs of non-whitespace characters, in order.
\* The word that starts at position i of s, if one does:
split_at(s, i) ==
    IF IsSpace(s[i]) \/ (i > 1 /\ ~IsSpace(s[i - 1])) THEN <<>>
    ELSE LET last == SetMin({j \in i..Len(s) :
                                 j = Len(s) \/ IsSpace(s[j + 1])})
         IN  <<SubSeq(s, i, last)>>

RECURSIVE split_range(_, _, _)
split_range(s, lo, hi) ==
    IF lo > hi THEN <<>>
    ELSE IF lo = hi THEN split_at(s, lo)
    ELSE LET mid == (lo + hi) \div 2
         IN  split_range(s, lo, mid) \o split_range(s, mid + 1, hi)

split(s) == split_range(s, 1, Len(s))

\* " ".join(ws)
RECURSIVE join_range(_, _, _)
join_range(ws, lo, hi) ==
    IF lo > hi THEN <<>>
    ELSE IF lo = hi THEN ws[lo]
    ELSE LET mid == (lo + hi) \div 2
         IN  join_range(ws, lo, mid) \o <<" ">> \o join_range(ws, mid + 1, hi)

join(ws) == join_range(ws, 1, Len(ws))

-----------------------------------------------------------------------------
(* Responses.  A response is [status, kind, body, reply]: a fixed plain     *)
(* text, a redirect, a rendered template, a generated chat reply (its text  *)
(* in `reply`) or an exception that left the handler.  The emoji that open  *)
(* three of the fixed texts in the source are written as [..] tags.         *)

NoText == <<>>

Plain(status, body) ==
    [status |-> status, kind |-> "text", body |-> body, reply |-> NoText]
Redirect(endpoint) ==
    [status |-> 302, kind |-> "redirect", body |-> endpoint, reply |-> NoText]
Template(name) ==
    [status |-> 200, kind |-> "template", body |-> name, reply |-> NoText]
ReplyText(text) ==
    [status |-> 200, kind |-> "reply", body |-> "", reply |-> text]
Unhandled(exception) ==
    [status |-> 500, kind |-> "exception", body |-> exception, reply |-> NoText]
NoResponse ==
    [status |-> 0, kind |-> "none", body |-> "", reply |-> NoText]

UsernameExists == Plain(400, "Username already exists!")
InvalidLogin == Plain(401, "Invalid username or password.")
PleaseLogIn == Plain(401, "Please log in to chat.")
PleaseType == Plain(200, "Please type something [speech balloon]")
SafetyMessage ==
    Plain(200, "[blossom] I'm really sorry you're feeling this way. If you're in immediate danger, please call emergency services (112 in India). You don't have to face this alone - I'm here with you.")
ModelUnavailable == Plain(200, "[warning] Serene model unavailable.")

-----------------------------------------------------------------------------
(* The chat pipeline of get_bot_response *)

w_suicide ==
    <<"s", "u", "i", "c", "i", "d", "e">>
w_kill_myself ==
    <<"k", "i", "l", "l", " ", "m", "y", "s", "e", "l", "f">>
w_end_my_life ==
    <<"e", "n", "d", " ", "m", "y", " ", "l", "i", "f", "e">>
w_want_to_die ==
    <<"w", "a", "n", "t", " ", "t", "o", " ", "d", "i", "e">>
w_hurt_myself ==
    <<"h", "u", "r", "t", " ", "m", "y", "s", "e", "l", "f">>

crisis_words ==
    <<w_suicide, w_kill_myself, w_end_my_life, w_want_to_die, w_hurt_myself>>

\* a slip the crisis test could have: the message is not lower-cased
is_crisis_case_sensitive(user_message) ==
    \E k \in 1..Len(crisis_words) : contains(crisis_words[k], user_message)

\* any(word in user_message.lower() for word in crisis_words)
is_crisis(user_message) ==
    \E k \in 1..Len(crisis_words) : contains(crisis_words[k], lower(user_message))

PromptHead ==
    <<"U", "s", "e", "r", ":", " ">>
PromptTail ==
    <<"\n", "S", "e", "r", "e", "n", "e", ":">>
RoleLabel ==
    <<"S", "e", "r", "e", "n", "e", ":">>
Ellipsis ==
    <<".", ".", ".">>

\* f"User: {user_input}\nSerene:"
build_prompt(user_input) == PromptHead \o user_input \o PromptTail

\* What tokenizer.decode(model.generate(...)[0]) returns for a prompt.  The
\* library is opaque: an outcome `gen` either echoes the prompt and continues
\* it (what a causal LM's generate does) or is some other text (the case the
\* handler's `if "Serene:" in reply` allows for).
decode_output(prompt, gen) ==
    IF gen.echo THEN prompt \o gen.text ELSE gen.text

\* if "Serene:" in reply: reply = reply.split("Serene:", 1)[1].strip()
extract_reply(reply) ==
    IF contains(RoleLabel, reply) THEN strip(after_first(RoleLabel, reply))
    ELSE reply

WordLimit == 60

\* a slip the length limit could have: >= in place of >
format_reply_off_by_one(reply) ==
    LET cleaned == sub_ws(reply)
        words == split(cleaned)
    IN  IF Len(words) >= WordLimit
        THEN join(SubSeq(words, 1, WordLimit)) \o Ellipsis
        ELSE cleaned

\* reply = re.sub(r"\s+", " ", reply); words = reply.split();
\* if len(words) > 60: reply = " ".join(words[:60]) + "..."
format_reply(reply) ==
    LET cleaned == sub_ws(reply)
        words == split(cleaned)
    IN  IF Len(words) > WordLimit
        THEN join(SubSeq(words, 1, WordLimit)) \o Ellipsis
        ELSE cleaned

\* The session a request carries is a dict: empty, or with key "user_id".
EmptySession == [k \in {} |-> 0]
UserSession(id) == [user_id |-> id]
HasUser(sess) == "user_id" \in DOMAIN sess

None == "None"
Loaded == "loaded"

\* POST /get: the response and whether model.generate was called, from the
\* request's session, the two globals, the form field msg and the outcome
\* of the model call.
get_bot_response(sess, mdl, tok, msg, gen) ==
    LET user_message == strip(msg)
    IN  IF ~HasUser(sess)
        THEN [response |-> PleaseLogIn, generated |-> FALSE]
        ELSE IF user_message = <<>>
        THEN [response |-> PleaseType, generated |-> FALSE]
        ELSE IF is_crisis(user_message)
        THEN [response |-> SafetyMessage, generated |-> FALSE]
        ELSE IF mdl = None \/ tok = None
        THEN [response |-> ModelUnavailable, generated |-> FALSE]
        ELSE [response |->
                  ReplyText(format_reply(extract_reply(
                      decode_output(build_prompt(user_message), gen)))),
              generated |-> TRUE]

-----------------------------------------------------------------------------
(* The user store: table "user" with id (primary key), username (unique)   *)
(* and password (the salted hash).                                         *)

\* generate_password_hash draws a random salt; the digest is a one-way
\* function of salt and password, modelled as the pair itself (no two
\* inputs collide).
Digest(salt, password) == <<"digest", salt, password>>
generate_password_hash(password, salt) ==
    [salt |-> salt, digest |-> Digest(salt, password)]
check_password_hash(pwhash, password) ==
    pwhash.digest = Digest(pwhash.salt, password)

NoUser == [id |-> 0, username |-> <<>>, password |-> [salt |-> 0, digest |-> <<>>]]

\* User.query.filter_by(username=username).first()
query_first(table, username) ==
    LET found == SelectSeq(table, LAMBDA row : row.username = username)
    IN  IF found = <<>> THEN NoUser ELSE found[1]

\* a slip the table could have: the column is not declared unique
unique_not_declared(table, username) == FALSE

\* username = db.Column(..., unique=True): the INSERT of a second row with
\* the same username raises IntegrityError
unique_violation(table, username) ==
    \E i \in 1..Len(table) : table[i].username = username

\* INSERT of a new row; the INTEGER PRIMARY KEY is one more than the largest
insert_user(table, username, pwhash) ==
    LET ids == {table[i].id : i \in 1..Len(table)}
        id == IF ids = {} THEN 1 ELSE SetMax(ids) + 1
    IN  Append(table, [id |-> id, username |-> username, password |-> pwhash])

\* a slip signup could have: the username is stored as typed
signup_username_untrimmed(raw) == raw

\* signup: username = request.form["username"].strip()
signup_username(raw) == strip(raw)

\* login: username = request.form["username"].strip()
login_username(raw) == strip(raw)

-----------------------------------------------------------------------------
(* The session.  Flask keeps the session dict in a cookie signed with      *)
(* app.secret_key; the client sends the cookie back with every request.    *)

NoCookie == [sig |-> <<>>, data |-> EmptySession]

\* a slip the configuration could have: a key drawn afresh by every process
secret_key_per_process(process) == <<"urandom", process>>

\* app.secret_key = "your_secret_key_here", whatever process runs the module
app_secret_key(process) == <<"your_secret_key_here">>

\* the session of a request: the cookie's dict when its signature verifies
\* under the server's key, else an empty dict
open_session(ck, key) == IF ck.sig = key THEN ck.data ELSE EmptySession

\* the cookie the response leaves with the client: untouched unless the
\* handler modified the session; a modified empty session deletes it
save_session(ck, key, sess, modified) ==
    IF ~modified THEN ck
    ELSE IF sess = EmptySession THEN NoCookie
    ELSE [sig |-> key, data |-> sess]

\* a slip logout could have: the session is left as it was
session_clear_noop(sess) == sess

\* session.clear()
session_clear(sess) == EmptySession

-----------------------------------------------------------------------------
(* Startup *)

\* a slip the except clause could have: only `model` is reset
load_model_keeps_tokenizer(tokOk, modelOk) ==
    IF tokOk /\ modelOk THEN [tokenizer |-> Loaded, model |-> Loaded]
    ELSE [tokenizer |-> IF tokOk THEN Loaded ELSE None, model |-> None]

\* try: tokenizer = ...; model = ...  except: tokenizer = None; model = None
load_model(tokOk, modelOk) ==
    IF tokOk /\ modelOk THEN [tokenizer |-> Loaded, model |-> Loaded]
    ELSE [tokenizer |-> None, model |-> None]

-----------------------------------------------------------------------------
(* Inputs *)

Clients == {"c1", "c2"}

n_a ==
    <<"a">>
n_a_padded ==
    <<" ", "a", "\n">>
n_b ==
    <<"b">>
RawNames == {n_a, n_a_padded, n_b}

Passwords == {"p", "q"}
Salts == {1, 2}

m_blank ==
    <<" ", "\t">>
m_hello ==
    <<" ", "h", "e", "l", "l", "o", " ", "\n">>
m_hurt ==
    <<"I", " ", "w", "a", "n", "t", " ", "t", "o", " ", "h", "u", "r", "t", " ", "m", "y", "s", "e", "l", "f">>

g_fine ==
    <<" ", "I", " ", "a", "m", " ", "h", "e", "r", "e", ".", "\n">>

Echo(text) == [echo |-> TRUE, text |-> text]
Other(text) == [echo |-> FALSE, text |-> text]

\* the messages and model outcomes the requests of Spec draw from
ChatMsgs == {m_blank, m_hello, m_hurt}
ChatGens == {Echo(g_fine)}

-----------------------------------------------------------------------------
(* Requests *)

NoReq ==
    [op |-> "none", client |-> "", username |-> <<>>, password |-> "",
     msg |-> <<>>, gen |-> Echo(<<>>), before |-> EmptySession, taken |-> FALSE]

\* the session the request of client c arrives with
Session(c) == open_session(cookie[c], secret_key)

Answer(request, response, gen) ==
    /\ req' = request
    /\ resp' = response
    /\ generated' = gen

\* GET /
Home(c) ==
    /\ Answer([NoReq EXCEPT !.op = "home", !.client = c, !.before = Session(c)],
              IF HasUser(Session(c)) THEN Template("index.html")
              ELSE Redirect("login"),
              FALSE)
    /\ UNCHANGED <<users, cookie, pending, tokenizer, model, secret_key, epoch,
                   loginEpoch, registered, loadFailed, fmtVars>>

\* GET /signup
SignupForm(c) ==
    /\ Answer([NoReq EXCEPT !.op = "signup_form", !.client = c,
                            !.before = Session(c)],
              Template("register.html"), FALSE)
    /\ UNCHANGED <<users, cookie, pending, tokenizer, model, secret_key, epoch,
                   loginEpoch, registered, loadFailed, fmtVars>>

NoPending == [active |-> FALSE, raw |-> <<>>, username |-> <<>>, password |-> ""]

\* POST /signup, lines 74-78: the lookup.  A taken username is answered at
\* once; otherwise the request goes on to its insert.
SignupLookup(c, raw, password) ==
    LET username == signup_username(raw)
    IN  /\ ~pending[c].active
        /\ IF query_first(users, username) # NoUser
           THEN /\ Answer([NoReq EXCEPT !.op = "signup", !.client = c,
                                        !.username = raw, !.password = password,
                                        !.before = Session(c), !.taken = TRUE],
                          UsernameExists, FALSE)
                /\ UNCHANGED pending
           ELSE /\ pending' = [pending EXCEPT ![c] =
                      [active |-> TRUE, raw |-> raw, username |-> username,
                       password |-> password]]
                /\ UNCHANGED <<req, resp, generated>>
        /\ UNCHANGED <<users, cookie, tokenizer, model, secret_key, epoch,
                       loginEpoch, registered, loadFailed, fmtVars>>

\* POST /signup, lines 80-84: hash, add, commit, redirect.  The commit of a
\* username that was inserted meanwhile raises IntegrityError, which the
\* handler does not catch; the transaction is rolled back.
SignupCommit(c, salt) ==
    LET p == pending[c]
        request == [NoReq EXCEPT !.op = "signup", !.client = c,
                                 !.username = p.raw, !.password = p.password,
                                 !.before = Session(c),
                                 !.taken = (query_first(users, p.username) # NoUser)]
    IN  /\ p.active
        /\ pending' = [pending EXCEPT ![c] = NoPending]
        /\ IF unique_violation(users, p.username)
           THEN /\ Answer(request, Unhandled("IntegrityError"), FALSE)
                /\ UNCHANGED <<users, registered>>
           ELSE /\ users' = insert_user(users, p.username,
                                        generate_password_hash(p.password, salt))
                /\ registered' = registered \cup
                       {<<strip(p.raw), p.password, users'[Len(users')].id>>}
                /\ Answer(request, Redirect("login"), FALSE)
        /\ UNCHANGED <<cookie, tokenizer, model, secret_key, epoch, loginEpoch,
                       loadFailed, fmtVars>>

\* GET /login
LoginForm(c) ==
    /\ Answer([NoReq EXCEPT !.op = "login_form", !.client = c,
                            !.before = Session(c)],
              Template("login.html"), FALSE)
    /\ UNCHANGED <<users, cookie, pending, tokenizer, model, secret_key, epoch,
                   loginEpoch, registered, loadFailed, fmtVars>>

\* a slip login could have: an unknown username gets an answer of its own
login_response_tells_unknown(user, password) ==
    IF user = NoUser THEN Plain(404, "No such user.")
    ELSE IF check_password_hash(user.password, password) THEN Redirect("home")
    ELSE InvalidLogin

\* lines 97-101: the response of POST /login for the row looked up
login_response(user, password) ==
    IF user # NoUser /\ check_password_hash(user.password, password)
    THEN Redirect("home")
    ELSE InvalidLogin

\* lines 97-98: the session POST /login leaves for the row looked up
login_session(sess, user, password) ==
    IF user # NoUser /\ check_password_hash(user.password, password)
    THEN UserSession(user.id)
    ELSE sess

\* POST /login as a function of the store, the client's cookie and the form:
\* the response, the cookie the client holds afterwards and the store (the
\* handler only reads it)
login_outcome(table, ck, key, raw, password) ==
    LET user == query_first(table, login_username(raw))
        sess == open_session(ck, key)
        after == login_session(sess, user, password)
    IN  [response |-> login_response(user, password),
         cookie |-> save_session(ck, key, after, after # sess),
         table |-> table,
         user |-> user]

Login(c, raw, password) ==
    LET out == login_outcome(users, cookie[c], secret_key, raw, password)
    IN  /\ Answer([NoReq EXCEPT !.op = "login", !.client = c, !.username = raw,
                                !.password = password, !.before = Session(c)],
                  out.response, FALSE)
        /\ cookie' = [cookie EXCEPT ![c] = out.cookie]
        /\ loginEpoch' = IF out.response = Redirect("home")
                         THEN [loginEpoch EXCEPT ![c] = {epoch}]
                         ELSE loginEpoch
        /\ users' = out.table
        /\ UNCHANGED <<pending, tokenizer, model, secret_key, epoch,
                       registered, loadFailed, fmtVars>>

\* GET /logout
Logout(c) ==
    /\ Answer([NoReq EXCEPT !.op = "logout", !.client = c, !.before = Session(c)],
              Redirect("login"), FALSE)
    /\ cookie' = [cookie EXCEPT ![c] =
           save_session(cookie[c], secret_key, session_clear(Session(c)), TRUE)]
    /\ loginEpoch' = [loginEpoch EXCEPT ![c] = {}]
    /\ UNCHANGED <<users, pending, tokenizer, model, secret_key, epoch,
                   registered, loadFailed, fmtVars>>

\* POST /get
Chat(c, msg, gen) ==
    LET out == get_bot_response(Session(c), model, tokenizer, msg, gen)
    IN  /\ Answer([NoReq EXCEPT !.op = "chat", !.client = c, !.msg = msg,
                                !.gen = gen, !.before = Session(c)],
                  out.response, out.generated)
        /\ UNCHANGED <<users, cookie, pending, tokenizer, model, secret_key,
                       epoch, loginEpoch, registered, loadFailed, fmtVars>>

\* The process is stopped and started again: the module body runs anew
\* (secret key, create_all on the existing users.db, model loading); requests
\* in flight are lost; the clients keep their cookies.
Restart(tokOk, modelOk) ==
    /\ epoch < MaxRestarts
    /\ epoch' = epoch + 1
    /\ secret_key' = app_secret_key(epoch + 1)
    /\ tokenizer' = load_model(tokOk, modelOk).tokenizer
    /\ model' = load_model(tokOk, modelOk).model
    /\ pending' = [c \in Clients |-> NoPending]
    /\ Answer([NoReq EXCEPT !.op = "restart"], NoResponse, FALSE)
    /\ loadFailed' = ~(tokOk /\ modelOk)
    /\ UNCHANGED <<users, cookie, loginEpoch, registered, fmtVars>>

NoFormat == [done |-> FALSE, text |-> <<>>]

InitWeb ==
    /\ users = <<>>
    /\ cookie = [c \in Clients |-> NoCookie]
    /\ pending = [c \in Clients |-> NoPending]
    /\ \E tokOk \in BOOLEAN, modelOk \in BOOLEAN :
          /\ tokenizer = load_model(tokOk, modelOk).tokenizer
          /\ model = load_model(tokOk, modelOk).model
          /\ loadFailed = ~(tokOk /\ modelOk)
    /\ secret_key = app_secret_key(0)
    /\ epoch = 0
    /\ req = NoReq
    /\ resp = NoResponse
    /\ generated = FALSE
    /\ loginEpoch = [c \in Clients |-> {}]
    /\ registered = {}

Init ==
    /\ InitWeb
    /\ fmtIn = <<>>
    /\ fmtOut = NoFormat

\* Spec follows one browser through every route, across restarts.
Browsers == {"c1"}

Next ==
    \/ \E c \in Browsers : Home(c)
    \/ \E c \in Browsers : SignupForm(c)
    \/ \E c \in Browsers, raw \in RawNames, password \in Passwords :
          SignupLookup(c, raw, password)
    \/ \E c \in Browsers, salt \in Salts : SignupCommit(c, salt)
    \/ \E c \in Browsers : LoginForm(c)
    \/ \E c \in Browsers, raw \in RawNames, password \in Passwords :
          Login(c, raw, password)
    \/ \E c \in Browsers : Logout(c)
    \/ \E c \in Browsers, msg \in ChatMsgs, gen \in ChatGens : Chat(c, msg, gen)
    \/ \E tokOk \in BOOLEAN, modelOk \in BOOLEAN : Restart(tokOk, modelOk)

Spec == Init /\ [][Next]_vars

\* SpecSignup lets the signups of two clients interleave (the development
\* server handles requests in threads), across restarts.
NextSignup ==
    \/ \E c \in Clients, raw \in RawNames, password \in Passwords :
          SignupLookup(c, raw, password)
    \/ \E c \in Clients, salt \in Salts : SignupCommit(c, salt)
    \/ \E tokOk \in BOOLEAN, modelOk \in BOOLEAN : Restart(tokOk, modelOk)

SpecSignup == Init /\ [][NextSignup]_vars

-----------------------------------------------------------------------------
(* SpecChat: the chat endpoint over a wider range of messages and model     *)
(* outcomes.  It starts from a users.db that an earlier run left with one   *)
(* account, so that the browser can log in, log out and chat.               *)

m_empty ==
    <<>>
m_pizza ==
    <<"I", " ", "w", "a", "n", "t", " ", "p", "i", "z", "z", "a">>
m_die ==
    <<"I", " ", "w", "a", "n", "t", " ", "t", "o", " ", "d", "i", "e">>
m_SUICIDE ==
    <<"S", "U", "I", "C", "I", "D", "E">>
m_Kill ==
    <<" ", "K", "i", "l", "l", " ", "M", "y", "s", "e", "l", "f", "\n">>
m_end ==
    <<"t", "h", "e", "y", " ", "e", "n", "d", " ", "m", "y", " ", "l", "i", "f", "e">>
m_inword ==
    <<"u", "n", "s", "u", "i", "c", "i", "d", "e", "l", "y">>
m_split ==
    <<"w", "a", "n", "t", " ", "t", "o", "\n", "d", "i", "e">>
m_label ==
    <<"S", "e", "r", "e", "n", "e", ":", " ", "h", "i">>
m_label2 ==
    <<"o", "k", " ", "S", "e", "r", "e", "n", "e", ":">>

g_empty ==
    <<>>
g_turns ==
    <<" ", "H", "i", "\n", "U", "s", "e", "r", ":", " ", "o", "k", "\n", "S", "e", "r", "e", "n", "e", ":", " ", "y", "e", "s">>
g_ws ==
    <<"\n", "\n", " ", "a", " ", " ", "b", " ", "\t">>
d_nolabel ==
    <<" ", " ", "I", " ", "h", "e", "a", "r", "\n", "\n", "y", "o", "u", " ">>

\* s repeated n times
Repeat(s, n) == [i \in 1..(n * Len(s)) |-> s[((i - 1) % Len(s)) + 1]]

\* a continuation of MaxWords words, more than the formatter keeps
g_long == Repeat(<<" ", "o", "k">>, MaxWords)

AllMsgs ==
    {m_empty, m_blank, m_hello, m_pizza, m_die, m_hurt, m_SUICIDE, m_Kill,
     m_end, m_inword, m_split, m_label, m_label2}
AllGens ==
    {Echo(g_empty), Echo(g_fine), Echo(g_turns), Echo(g_ws), Echo(g_long),
     Other(d_nolabel), Other(g_turns)}

InitChat ==
    /\ users = insert_user(<<>>, n_a, generate_password_hash("p", 1))
    /\ registered = {<<n_a, "p", 1>>}
    /\ cookie = [c \in Clients |-> NoCookie]
    /\ pending = [c \in Clients |-> NoPending]
    /\ \E tokOk \in BOOLEAN, modelOk \in BOOLEAN :
          /\ tokenizer = load_model(tokOk, modelOk).tokenizer
          /\ model = load_model(tokOk, modelOk).model
          /\ loadFailed = ~(tokOk /\ modelOk)
    /\ secret_key = app_secret_key(0)
    /\ epoch = 0
    /\ req = NoReq
    /\ resp = NoResponse
    /\ generated = FALSE
    /\ loginEpoch = [c \in Clients |-> {}]
    /\ fmtIn = <<>>
    /\ fmtOut = NoFormat

NextChat ==
    \/ \E c \in Browsers, raw \in RawNames, password \in Passwords :
          Login(c, raw, password)
    \/ \E c \in Browsers : Logout(c)
    \/ \E c \in Browsers, msg \in AllMsgs, gen \in AllGens : Chat(c, msg, gen)
    \/ \E tokOk \in BOOLEAN, modelOk \in BOOLEAN : Restart(tokOk, modelOk)

SpecChat == InitChat /\ [][NextChat]_vars

-----------------------------------------------------------------------------
(* SpecFmt: the reply formatter (lines 156-164) applied to replies of       *)
(* 0 .. MaxWords words with varied whitespace between and around them.      *)

FmtWord(i) == IF i % 2 = 1 THEN <<"a">> ELSE <<"b", "c">>

FmtSeps ==
    << <<" ">>, <<"\n">>, <<" ", " ">>, <<" ", "\n", "\t">> >>
FmtSepStyles == {1, 2, 3}
FmtSep(style, i) ==
    IF style = 1 THEN FmtSeps[1]
    ELSE IF style = 2 THEN FmtSeps[2]
    ELSE FmtSeps[(i % Len(FmtSeps)) + 1]

FmtEdges == {<<>>, <<" ">>, <<"\n", "\t">>}

\* words lo..hi of an n-word reply, each but the n-th followed by whitespace
RECURSIVE FmtBody(_, _, _, _)
FmtBody(n, style, lo, hi) ==
    IF lo > hi THEN <<>>
    ELSE IF lo = hi
    THEN FmtWord(lo) \o (IF lo = n THEN <<>> ELSE FmtSep(style, lo))
    ELSE LET mid == (lo + hi) \div 2
         IN  FmtBody(n, style, lo, mid) \o FmtBody(n, style, mid + 1, hi)

FmtInputs ==
    {lead \o FmtBody(n, style, 1, n) \o trail :
        n \in 0..MaxWords, style \in FmtSepStyles,
        lead \in FmtEdges, trail \in FmtEdges}

InitFmt ==
    /\ InitWeb
    /\ fmtIn \in FmtInputs
    /\ fmtOut = NoFormat

Format ==
    /\ ~fmtOut.done
    /\ fmtOut' = [done |-> TRUE, text |-> format_reply(fmtIn)]
    /\ UNCHANGED <<webVars, fmtIn>>

NextFmt == Format

SpecFmt == InitFmt /\ [][NextFmt]_vars

-----------------------------------------------------------------------------
(* Properties *)

\* the phrase list as the specification gives it
CrisisPhrases ==
    {w_suicide, w_kill_myself, w_end_my_life, w_want_to_die, w_hurt_myself}

\* the trimmed message contains one of the phrases, letter case aside
MentionsCrisis(msg) ==
    \E w \in CrisisPhrases : contains(w, lower(strip(msg)))

\* the request reaches the generation step of get_bot_response
ReachesGeneration ==
    /\ req.op = "chat"
    /\ HasUser(req.before)
    /\ strip(req.msg) # <<>>
    /\ ~MentionsCrisis(req.msg)

\* C1: a chat request with a live session whose trimmed message contains a
\* crisis phrase (case-insensitively, as a substring) is answered with the
\* fixed safety message and model.generate is not called, whether the model
\* is loaded or not.
C1_CrisisShortCircuits ==
    (req.op = "chat" /\ HasUser(req.before) /\ MentionsCrisis(req.msg))
        => (resp = SafetyMessage /\ ~generated)

C1_Witness ==
    /\ req.op = "chat"
    /\ HasUser(req.before)
    /\ req.msg = m_Kill
    /\ model = Loaded
    /\ tokenizer = Loaded
    /\ resp = SafetyMessage
    /\ ~generated

\* C2: a client has a session exactly when it has logged in successfully
\* since its last logout; POST /get is answered 401 "Please log in to chat."
\* without generation, and GET / redirects to login, exactly when the client
\* has none; only a successful login gives a client a session.
C2_SessionGate ==
    /\ \A c \in Clients : HasUser(Session(c)) <=> (loginEpoch[c] # {})
    /\ req.op = "chat" =>
          /\ (resp = PleaseLogIn) <=> (loginEpoch[req.client] = {})
          /\ (resp = PleaseLogIn) => ~generated
    /\ req.op = "home" =>
          /\ (resp = Redirect("login")) <=> (loginEpoch[req.client] = {})
          /\ (resp = Template("index.html")) <=> (loginEpoch[req.client] # {})
    /\ (req.client \in Clients /\ HasUser(Session(req.client))
            /\ ~HasUser(req.before))
          => (req.op = "login" /\ resp = Redirect("home"))

C2_Witness ==
    /\ req.op = "chat"
    /\ req.msg = m_hurt
    /\ resp = PleaseLogIn
    /\ ~generated
    /\ registered # {}
    /\ loginEpoch[req.client] = {}

\* C3: the users table never holds two rows with the same username, however
\* the lookups and commits of concurrent signups interleave.
C3_UniqueUsernames ==
    \A i \in 1..Len(users), j \in 1..Len(users) :
        i # j => users[i].username # users[j].username

\* a signup passed its lookup and met a row for its username at its commit
C3_Witness ==
    /\ req.op = "signup"
    /\ req.taken
    /\ resp # UsernameExists
    /\ Len(users) = 1

\* C4: a signup whose trimmed username is taken by the time its insert is
\* attempted is answered 400 "Username already exists!", also when it lost
\* a race against a concurrent signup for the same username.
C4_DuplicateAnswered400 ==
    (req.op = "signup" /\ req.taken) => resp = UsernameExists

\* C5: after a successful signup, every login with that username (compared
\* after trimming) and that password succeeds and sets the session to that
\* user's id, whatever requests came between; with another password it is
\* answered 401 and the session stays as it was.
C5_SignupThenLogin ==
    req.op = "login" =>
        \A entry \in registered :
            entry[1] = strip(req.username) =>
                IF entry[2] = req.password
                THEN /\ resp = Redirect("home")
                     /\ Session(req.client) = UserSession(entry[3])
                ELSE /\ resp = InvalidLogin
                     /\ resp.status = 401
                     /\ Session(req.client) = req.before

C5_Witness ==
    /\ req.op = "login"
    /\ req.username = n_a_padded
    /\ <<n_a, req.password, 2>> \in registered
    /\ resp = Redirect("home")
    /\ Session(req.client) = UserSession(2)
    /\ epoch > 0

\* C6: from any state, a login that fails because the username is unknown
\* and one that fails because the password is wrong get the same response
\* (401 "Invalid username or password.") and leave the same cookie and the
\* same users table, both as they were.
C6_LoginFailureUniform ==
    \A c \in Clients, r1 \in RawNames, r2 \in RawNames,
       p1 \in Passwords, p2 \in Passwords :
        LET wrong == login_outcome(users, cookie[c], secret_key, r1, p1)
            unknown == login_outcome(users, cookie[c], secret_key, r2, p2)
        IN  (/\ wrong.user # NoUser
             /\ ~check_password_hash(wrong.user.password, p1)
             /\ unknown.user = NoUser)
            => /\ wrong.response = InvalidLogin
               /\ unknown.response = wrong.response
               /\ unknown.cookie = wrong.cookie
               /\ wrong.cookie = cookie[c]
               /\ unknown.table = wrong.table
               /\ wrong.table = users

\* a wrong-password login was just refused while another username is unknown
C6_Witness ==
    /\ req.op = "login"
    /\ resp = InvalidLogin
    /\ query_first(users, strip(req.username)) # NoUser
    /\ \E r \in RawNames : query_first(users, strip(r)) = NoUser
    /\ HasUser(req.before)

\* C7: in a process whose model loading failed, both handles are unset in
\* every state, generation is never called, and every chat request that
\* reaches the generation step gets the fixed unavailability message.
C7_UnavailableForLife ==
    loadFailed =>
        /\ model = None
        /\ tokenizer = None
        /\ ~generated
        /\ ReachesGeneration => resp = ModelUnavailable

C7_Witness ==
    /\ loadFailed
    /\ ReachesGeneration
    /\ resp = ModelUnavailable
    /\ epoch > 0

\* the client logged in under an earlier process and has neither logged in
\* nor logged out since
LoggedInBeforeRestart(c) ==
    \E e \in loginEpoch[c] : e < epoch

C9_FormatReply ==
    fmtOut.done =>
        LET words == split(fmtIn)
            out == fmtOut.text
        IN  /\ \A i \in 1..Len(out) :
                  IsSpace(out[i]) =>
                      /\ out[i] = " "
                      /\ i < Len(out) => ~IsSpace(out[i + 1])
            /\ IF Len(words) > WordLimit
               THEN out = join(SubSeq(words, 1, WordLimit)) \o Ellipsis
               ELSE /\ split(out) = words
                    /\ (fmtIn # <<>> /\ IsSpace(fmtIn[1]))
                          <=> (out # <<>> /\ IsSpace(out[1]))
                    /\ (fmtIn # <<>> /\ IsSpace(fmtIn[Len(fmtIn)]))
                          <=> (out # <<>> /\ IsSpace(out[Len(out)]))

C9_Witness ==
    /\ fmtOut.done
    /\ Len(split(fmtIn)) = WordLimit + 1
    /\ contains(<<"\n">>, fmtIn)
    /\ Len(split(fmtOut.text)) = WordLimit
    /\ ~contains(<<"\n">>, fmtOut.text)

\* C10: when the decoded output is the echoed prompt followed by the
\* continuation, the reply is the trimmed continuation alone (formatted),
\* with nothing of the user's message in it; when the decoded output has no
\* "Serene:", the reply is the decoded text (formatted).
C10_EchoDiscarded ==
    (req.op = "chat" /\ generated) =>
        IF req.gen.echo
        THEN resp.reply = format_reply(strip(req.gen.text))
        ELSE ~contains(RoleLabel, req.gen.text)
                => resp.reply = format_reply(req.gen.text)

=============================================================================
